---------------------------- MODULE Spec2Model ----------------------------
(***************************************************************************)
(* Model of src/handler.py: the SMS narrative game "Choose Your Hustle".   *)
(*                                                                         *)
(* Python None is the value NONE.  A text is a sequence of one-character   *)
(* strings, so that strip() and upper() are computed.  A reply is a        *)
(* sequence of pieces (message texts, "\n" separators, numbers printed by  *)
(* ToString); string concatenation is sequence concatenation.              *)
(***************************************************************************)
EXTENDS Integers, Sequences, FiniteSets, TLC

VARIABLES
    sms_service, \* whether the Africa's Talking SDK was initialised
    store,   \* the DynamoDB users table: db phone number -> stored item
    last,    \* what the most recent invocation of the handler did
    prev,    \* what the invocation before it did
    res,     \* the most recent application of apply_outcome_and_get_message
    calls    \* the invocations of the handler that run step by step

vars == <<sms_service, store, last, prev, res, calls>>

NONE == "None"

NL == "\n"

(***************************************************************************)
(* Texts                                                                   *)
(***************************************************************************)
Lower == <<"a","b","c","d","e","f","g","h","i","j","k","l","m",
           "n","o","p","q","r","s","t","u","v","w","x","y","z">>
Upper == <<"A","B","C","D","E","F","G","H","I","J","K","L","M",
           "N","O","P","Q","R","S","T","U","V","W","X","Y","Z">>

Whitespace == {" ", "\t", "\n"}

UpperChar(c) ==
    IF \E i \in 1..Len(Lower) : Lower[i] = c
    THEN Upper[CHOOSE i \in 1..Len(Lower) : Lower[i] = c]
    ELSE c

\* str.upper()
StrUpper(s) == [i \in 1..Len(s) |-> UpperChar(s[i])]

\* str.strip()
StrStrip(s) ==
    LET keep == {i \in 1..Len(s) : s[i] \notin Whitespace}
    IN  IF keep = {} THEN <<>>
        ELSE LET lo == CHOOSE i \in keep : \A j \in keep : i <= j
                 hi == CHOOSE i \in keep : \A j \in keep : j <= i
             IN  SubSeq(s, lo, hi)

\* str.replace('+', '')
RECURSIVE RemovePlus(_)
RemovePlus(s) ==
    IF s = <<>> THEN <<>>
    ELSE IF Head(s) = "+" THEN RemovePlus(Tail(s))
         ELSE <<Head(s)>> \o RemovePlus(Tail(s))

T_1 == <<"1">>
T_2 == <<"2">>
T_3 == <<"3">>
T_RESTART == <<"R","E","S","T","A","R","T">>
T_HUSTLE == <<"H","U","S","T","L","E">>
T_CHOOSE_YOUR_HUSTLE ==
    <<"C","H","O","O","S","E"," ","Y","O","U","R"," ","H","U","S","T","L","E">>
T_PERISH == <<"P","E","R","I","S","H">>
T_PICK_UP_OR_PERISH ==
    <<"P","I","C","K"," ","U","P"," ","O","R"," ","P","E","R","I","S","H">>

\* the choice labels, as dictionary keys
ChoiceKey(t) ==
    IF t = T_1 THEN "1" ELSE IF t = T_2 THEN "2" ELSE IF t = T_3 THEN "3" ELSE NONE

(***************************************************************************)
(* GAME_DATA and RANDOM_EVENTS                                             *)
(***************************************************************************)
HUSTLE_GOAL == 10000

\* an effect dictionary: the keys it has and their values
Effect(hasNw, die, nw, hasPct, num, den, ev) ==
    [die |-> die, has_net_worth |-> hasNw, net_worth |-> nw,
     has_percentage |-> hasPct, pct_num |-> num, pct_den |-> den,
     random_event |-> ev]

Add(n)          == Effect(TRUE, FALSE, n, FALSE, 0, 1, NONE)
AddEvent(n, ev) == Effect(TRUE, FALSE, n, FALSE, 0, 1, ev)
Die             == Effect(TRUE, TRUE, 0, FALSE, 0, 1, NONE)
Pct(num, den)   == Effect(FALSE, FALSE, 0, TRUE, num, den, NONE)

Outcome(msg, eff, nxt) == [message |-> msg, effect |-> eff, next_state |-> nxt]

NoOutcomes == [c \in {} |-> NONE]

Prompt(msg, opts, hasNext, nxt, outs) ==
    [message |-> msg, next_state |-> nxt, is_dict |-> TRUE,
     options |-> opts, has_next_state |-> hasNext,
     has_outcomes |-> (outs # NoOutcomes), outcomes |-> outs]

TextNode(msg) ==
    [message |-> msg, next_state |-> NONE, is_dict |-> FALSE,
     options |-> <<>>, has_next_state |-> FALSE,
     has_outcomes |-> FALSE, outcomes |-> NoOutcomes]

Outcomes3(o1, o2, o3) ==
    [c \in {"1", "2", "3"} |-> IF c = "1" THEN o1 ELSE IF c = "2" THEN o2 ELSE o3]

GAME_DATA ==
    [k \in {"hustle_intro", "hustle_q1", "hustle_q2", "hustle_q3", "hustle_q4",
            "death_scam", "death_starved", "win_hustle", "default_death"} |->
     CASE k = "hustle_intro" ->
            Prompt("Welcome to Choose Your Hustle!",
                   <<"1. Look for a formal job.", "2. Start a small side hustle.",
                     "3. Try your luck with a quick crypto trade.">>,
                   TRUE, "hustle_q1", NoOutcomes)
       [] k = "hustle_q1" ->
            Prompt("A potential investor hears about your idea",
                   <<"1. Take it, no questions asked", "2. Ask for a meeting",
                     "3. Reject, too good to be true">>,
                   FALSE, NONE,
                   Outcomes3(
                     Outcome("You blindly took the deal! (+KES 5000)", Add(5000), "hustle_q2"),
                     Outcome("He got impatient and pulled out. (-KES 1000)", Add(-1000), "hustle_q2"),
                     Outcome("You dodged a bullet (No change)", Add(0), "hustle_q2")))
       [] k = "hustle_q2" ->
            Prompt("Your cousin asks to borrow KES 2000",
                   <<"1. Lend them the money", "2. Lend half, keep half",
                     "3. Say no, you need the money">>,
                   FALSE, NONE,
                   Outcomes3(
                     Outcome("You lent the money. Fingers crossed!", AddEvent(-2000, "ghosted"), NONE),
                     Outcome("You lent half. Better safe than sorry.", Add(-1000), "hustle_q3"),
                     Outcome("You kept your funds. Wise choice.", Add(0), "hustle_q3")))
       [] k = "hustle_q3" ->
            Prompt("A new tech trend emerges",
                   <<"1. Go all-in", "2. Research and learn first",
                     "3. Stick to your original plan">>,
                   FALSE, NONE,
                   Outcomes3(
                     Outcome("You bet big on AI fashion!", AddEvent(3000, "ai_boom_bust"), NONE),
                     Outcome("Your careful pivot yields steady growth. (+KES 1000)", Add(1000), "hustle_q4"),
                     Outcome("You missed out on new opportunities. (-KES 500)", Add(-500), "hustle_q4")))
       [] k = "hustle_q4" ->
            Prompt("Your biggest competitor offers to buy your side hustle",
                   <<"1. Sell now", "2. Reject", "3. Counter-offer for KES 12,000.">>,
                   FALSE, NONE,
                   Outcomes3(
                     Outcome("You sold your hustle! (+KES 8000)", Add(8000), "check_win"),
                     Outcome("You hold on, hoping for more. (-KES 1500)", AddEvent(-1500, "market_crash"), NONE),
                     Outcome("Your counter-offer was too high.", AddEvent(0, "negotiation_fail"), NONE)))
       [] k = "death_scam" -> TextNode("You joined a WhatsApp forex group.")
       [] k = "death_starved" -> TextNode("You thought wild berries were a meal.")
       [] k = "win_hustle" -> TextNode("Congratulations! You hustled your way to KES 10,000!")
       [] k = "default_death" -> TextNode("You made a fatal error. Your hustle ended here.")]

Event(msg, eff, nxt) ==
    [message |-> msg, effect |-> eff, next_state |-> nxt, has_next_state |-> TRUE]

RANDOM_EVENTS ==
    [k \in {"ghosted", "ponzi", "ai_boom_bust", "market_crash", "negotiation_fail"} |->
     CASE k = "ghosted" ->
            Event("Oh no! Your cousin ghosted you! (-KES 2000)", Add(-2000), "hustle_q3")
       [] k = "ponzi" ->
            Event("It was a Ponzi. You lost everything! (-ALL)", Die, NONE)
       [] k = "ai_boom_bust" ->
            Event("The AI bubble burst! (-HALF)", Pct(-1, 2), "hustle_q4")
       [] k = "market_crash" ->
            Event("The market crashed! (-ALL)", Die, NONE)
       [] k = "negotiation_fail" ->
            Event("Your reputation for greed spread. (-1000)", Add(-1000), "hustle_q4")]

\* GAME_DATA.get(key) is a dictionary with the key "outcomes"
HasOutcomes(key) == key \in DOMAIN GAME_DATA /\ GAME_DATA[key].has_outcomes

\* GAME_DATA.get(key) is truthy and "options" in it
HasOptions(key) == key \in DOMAIN GAME_DATA /\ GAME_DATA[key].is_dict

DEFAULT_DEATH == GAME_DATA["default_death"].message
WIN_HUSTLE    == GAME_DATA["win_hustle"].message


(***************************************************************************)
(* The player record                                                       *)
(***************************************************************************)
\* the dictionary the handler builds for a new player and on RESTART
FreshState(db_phone_number) ==
    [net_worth |-> 0, phoneNumber |-> db_phone_number, game |-> NONE,
     status |-> "alive", days_survived |-> 0, current_q |-> NONE]

\* status, game and current_q as every death and the win set them
Dead(st) == [st EXCEPT !.status = "dead", !.game = NONE, !.current_q = NONE]

(***************************************************************************)
(* apply_outcome_and_get_message                                           *)
(***************************************************************************)
\* int(n / den) for an integer n: Python's int() of a float truncates toward zero
PyInt(n, den) == IF n >= 0 THEN n \div den ELSE -((-n) \div den)

\* int(net_worth * percentage)
PercentDelta(net_worth, eff) == PyInt(net_worth * eff.pct_num, eff.pct_den)

\* the outcome's own effect; acc is [reply, st, next]
OutcomeEffect(outcome, st) ==
    LET eff == outcome.effect
        acc == [st |-> st, reply |-> <<outcome.message>>, next |-> outcome.next_state]
    IN  IF eff.has_net_worth
        THEN IF eff.die
             THEN [acc EXCEPT !.reply = <<DEFAULT_DEATH>>, !.st = Dead(st)]
             ELSE [acc EXCEPT !.st.net_worth = st.net_worth + eff.net_worth]
        ELSE IF eff.has_percentage
             THEN [acc EXCEPT !.st.net_worth = st.net_worth + PercentDelta(st.net_worth, eff)]
             ELSE acc

\* EventNextState with the outcome's next_state kept
EventNextState_OutcomeKept(ev, pending) == pending

\* random_event_data.get("next_state", next_q_key_after_outcome)
EventNextState(ev, pending) == IF ev.has_next_state THEN ev.next_state ELSE pending

\* the random event the outcome names, when RANDOM_EVENTS has it
RandomEventEffect(outcome, acc) ==
    LET event_key == outcome.effect.random_event
    IN  IF event_key # NONE /\ event_key \in DOMAIN RANDOM_EVENTS
        THEN LET ev   == RANDOM_EVENTS[event_key]
                 eff  == ev.effect
                 msg  == acc.reply \o <<NL, ev.message>>
                 nxt  == EventNextState(ev, acc.next)
                 nw   == acc.st.net_worth
             IN  IF eff.has_net_worth
                 THEN IF eff.die
                      THEN [st |-> Dead(acc.st), reply |-> <<DEFAULT_DEATH>>, next |-> nxt]
                      ELSE [st |-> [acc.st EXCEPT !.net_worth = nw + eff.net_worth], reply |-> msg,
                            next |-> nxt]
                 ELSE IF eff.has_percentage
                      THEN [st |-> [acc.st EXCEPT !.net_worth = nw + PercentDelta(nw, eff)], reply |-> msg,
                            next |-> nxt]
                      ELSE [st |-> acc.st, reply |-> msg, next |-> nxt]
        ELSE acc

\* ClampNetWorth without the clamp
ClampNetWorth_Missing(st) == st

\* net worth does not stay negative for a living player
ClampNetWorth(st) ==
    IF st.status = "alive" /\ st.net_worth < 0 THEN [st EXCEPT !.net_worth = 0] ELSE st

\* WinOrNext with the goal compared by > instead of >=
WinOrNext_StrictGoal(acc) ==
    LET st == acc.st
    IN  IF st.status = "alive" /\ st.net_worth > HUSTLE_GOAL
        THEN [st |-> Dead(st),
              reply |-> acc.reply \o <<NL, WIN_HUSTLE, NL, "Current Net Worth: KES ",
                                       ToString(st.net_worth)>>]
        ELSE IF st.status = "alive"
             THEN [st |-> [st EXCEPT !.current_q =
                              IF acc.next # NONE /\ acc.next # "" THEN acc.next
                              ELSE "hustle_intro"],
                   reply |-> acc.reply]
             ELSE [st |-> st, reply |-> acc.reply]

\* the win, or the next question of a player still alive
WinOrNext(acc) ==
    LET st == acc.st
    IN  IF st.status = "alive" /\ st.net_worth >= HUSTLE_GOAL
        THEN [st |-> Dead(st),
              reply |-> acc.reply \o <<NL, WIN_HUSTLE, NL, "Current Net Worth: KES ",
                                       ToString(st.net_worth)>>]
        ELSE IF st.status = "alive"
             THEN [st |-> [st EXCEPT !.current_q =
                              IF acc.next # NONE /\ acc.next # "" THEN acc.next
                              ELSE "hustle_intro"],
                   reply |-> acc.reply]
             ELSE [st |-> st, reply |-> acc.reply]

\* apply_outcome_and_get_message with the win checked before the random event
apply_outcome_and_get_message_WinBeforeEvent(outcome, user_state) ==
    LET a1  == OutcomeEffect(outcome, user_state)
        a2  == IF a1.st.status = "alive" /\ a1.st.net_worth >= HUSTLE_GOAL THEN a1
               ELSE RandomEventEffect(outcome, a1)
        a3  == [a2 EXCEPT !.st = ClampNetWorth(a2.st)]
        out == WinOrNext(a3)
    IN  [st |-> out.st, reply |-> out.reply, mid |-> a3.st]

\* returns reply_msg and user_state; mid is user_state as the win check reads it
apply_outcome_and_get_message(outcome, user_state) ==
    LET a1  == OutcomeEffect(outcome, user_state)
        a2  == RandomEventEffect(outcome, a1)
        a3  == [a2 EXCEPT !.st = ClampNetWorth(a2.st)]
        out == WinOrNext(a3)
    IN  [st |-> out.st, reply |-> out.reply, mid |-> a3.st]

(***************************************************************************)
(* The users table and the SMS gateway                                     *)
(***************************************************************************)
NotFound == [found |-> FALSE, item |-> FreshState(<<>>)]

\* ok is FALSE when the table is not initialised or get_item raises
get_user_state(table, db_phone_number, ok) ==
    IF ~ok THEN NotFound
    ELSE IF db_phone_number \in DOMAIN table
         THEN LET item == table[db_phone_number]
              IN  [found |-> TRUE,
                   item  |-> [item EXCEPT
                                !.game = IF item.game = "" THEN NONE ELSE item.game,
                                !.current_q = IF item.current_q = "" THEN NONE
                                              ELSE item.current_q]]
         ELSE NotFound

\* the item put_item stores: None is written as the empty string
ItemToSave(user_state) ==
    [user_state EXCEPT
       !.game = IF user_state.game = NONE THEN "" ELSE user_state.game,
       !.current_q = IF user_state.current_q = NONE THEN "" ELSE user_state.current_q]

\* save_user_state whose put_item stores the item before it raises
save_user_state_StoresThenRaises(table, user_state, ok) ==
    [k \in DOMAIN table \cup {user_state.phoneNumber} |->
        IF k = user_state.phoneNumber THEN ItemToSave(user_state) ELSE table[k]]

\* the table after put_item; ok is FALSE when the table is not initialised or
\* put_item raises
save_user_state(table, user_state, ok) ==
    IF ~ok THEN table
    ELSE [k \in DOMAIN table \cup {user_state.phoneNumber} |->
            IF k = user_state.phoneNumber THEN ItemToSave(user_state) ELSE table[k]]

\* the calls of sms_instance.send that one call of send_sms_reply makes
send_sms_reply(sms_instance, recipient_number, message_text) ==
    IF sms_instance THEN <<[to |-> recipient_number, text |-> message_text]>> ELSE <<>>

(***************************************************************************)
(* inbound_sms_handler                                                     *)
(***************************************************************************)
NoRes == [outcome |-> Outcome("", Add(0), NONE), reply |-> <<>>,
          out |-> FreshState(<<>>), mid |-> FreshState(<<>>),
          applied |-> FALSE, input |-> FreshState(<<>>)]

Applied(outcome, st, r) ==
    [outcome |-> outcome, reply |-> r.reply, out |-> r.st, mid |-> r.mid,
     applied |-> TRUE, input |-> st]

\* what a turn did: the record it ends with, its reply, the states it handed to
\* save_user_state, the replies it handed to send_sms_reply, its branch
Result(st, reply, saves, sends, branch, statusCode, r) ==
    [res |-> r, st |-> st, reply |-> reply, saves |-> saves,
     sends |-> sends, branch |-> branch, statusCode |-> statusCode]

Options(key) ==
    LET o == GAME_DATA[key].options
    IN  <<o[1], NL, o[2], NL, o[3]>>

MENU == <<"What game do you want to play?", NL, "1. Choose Your Hustle", NL,
          "2. Pick Up or Perish">>

\* the event's parameters, which the form-encoded body and the plain event both
\* yield: a missing text raises in .strip() and is answered 400, as is an empty
\* phone or text; text_message is text.strip().upper()
Parse(event) ==
    IF ~event.has_text
    THEN [ok |-> FALSE, text |-> <<>>, from |-> <<>>, db |-> <<>>]
    ELSE [ok |-> event.has_from /\ event.from # <<>>
                  /\ StrUpper(StrStrip(event.text)) # <<>>,
          text |-> StrUpper(StrStrip(event.text)),
          from |-> event.from,
          db |-> RemovePlus(event.from)]

RestartBranch(db_phone_number) ==
    LET st    == FreshState(db_phone_number)
        reply == <<"Welcome back! ">> \o MENU
    IN  Result(st, reply, <<st>>, <<reply>>, "restart", 200, NoRes)

\* SelectionBranch that saves the record on every reply
SelectionBranch_AlwaysSaves(st, text) ==
    IF text = T_1 \/ text = T_CHOOSE_YOUR_HUSTLE \/ text = T_HUSTLE
    THEN LET st2   == [st EXCEPT !.game = "hustle", !.current_q = "hustle_intro"]
             reply == <<GAME_DATA["hustle_intro"].message, NL>> \o Options("hustle_intro")
         IN  Result(st2, reply, <<st2>>, <<reply>>, "selection", 200, NoRes)
    ELSE IF text = T_2 \/ text = T_PICK_UP_OR_PERISH \/ text = T_PERISH
         THEN LET reply == <<"Pick Up or Perish is not ready yet.">>
              IN  Result(st, reply, <<st>>, <<reply>>, "selection", 200, NoRes)
         ELSE LET reply == <<"Welcome! ">> \o MENU
              IN  Result(st, reply, <<st>>, <<reply>>, "selection", 200, NoRes)

\* the game selection of a record without a game
SelectionBranch(st, text) ==
    IF text = T_1 \/ text = T_CHOOSE_YOUR_HUSTLE \/ text = T_HUSTLE
    THEN LET st2   == [st EXCEPT !.game = "hustle", !.current_q = "hustle_intro"]
             reply == <<GAME_DATA["hustle_intro"].message, NL>> \o Options("hustle_intro")
         IN  Result(st2, reply, <<st2>>, <<reply>>, "selection", 200, NoRes)
    ELSE IF text = T_2 \/ text = T_PICK_UP_OR_PERISH \/ text = T_PERISH
         THEN LET reply == <<"Pick Up or Perish is not ready yet.">>
              IN  Result(st, reply, <<>>, <<reply>>, "selection", 200, NoRes)
         ELSE LET reply == <<"Welcome! ">> \o MENU
              IN  Result(st, reply, <<>>, <<reply>>, "selection", 200, NoRes)

\* NextPrompt that appends nothing to the outcome's message
NextPrompt_OutcomeOnly(a) == a

\* after an outcome: the next question's prompt, the check_win pass, or the
\* unexpected end; a is [reply, st]
NextPrompt(a) ==
    IF a.st.status # "alive" THEN a
    ELSE IF HasOptions(a.st.current_q)
         THEN [a EXCEPT !.reply =
                 a.reply \o <<NL, NL, "Current Net Worth: KES ",
                              ToString(a.st.net_worth), NL,
                              GAME_DATA[a.st.current_q].message, NL>>
                         \o Options(a.st.current_q)]
         ELSE IF a.st.current_q = "check_win" THEN a
              ELSE [st |-> Dead(a.st),
                    reply |-> a.reply \o <<NL, "Unexpected game end. Reply RESTART to start again.">>]

\* the first choice after the intro: it is resolved against hustle_q1's outcomes
IntroChoice(st, c) ==
    LET nxt == GAME_DATA["hustle_intro"].next_state
        st1 == [st EXCEPT !.current_q = nxt]
    IN  IF ~HasOutcomes(nxt)
        THEN [res |-> NoRes, st |-> Dead(st1),
              reply |-> <<"Error: Game setup for hustle_q1 is incorrect. Reply RESTART.">>]
        ELSE IF c \in DOMAIN GAME_DATA[nxt].outcomes
             THEN LET outcome == GAME_DATA[nxt].outcomes[c]
                      r == apply_outcome_and_get_message(outcome, st1)
                      a == NextPrompt([st |-> r.st, reply |-> r.reply])
                  IN  [res |-> Applied(outcome, st1, r), st |-> a.st, reply |-> a.reply]
             ELSE [res |-> NoRes, st |-> st1,
                   reply |-> <<"Invalid choice. Please reply with 1, 2, or 3 for your first move.", NL>>
                             \o Options("hustle_intro")]

\* IntroInvalid with the move to hustle_q1 made before the input is validated
IntroInvalid_Advances(st) ==
    [res |-> NoRes, st |-> [st EXCEPT !.current_q = GAME_DATA["hustle_intro"].next_state],
     reply |-> <<"Please choose a valid option (1, 2, or 3) to start your hustle.", NL>>
               \o Options("hustle_intro")]

\* input that is not 1, 2 or 3 at the intro: the intro options again
IntroInvalid(st) ==
    [res |-> NoRes, st |-> st,
     reply |-> <<"Please choose a valid option (1, 2, or 3) to start your hustle.", NL>>
               \o Options("hustle_intro")]

\* the intro branch saves and sends whatever its two cases produced
IntroBranch(st, text) ==
    LET b == IF ChoiceKey(text) # NONE THEN IntroChoice(st, ChoiceKey(text))
             ELSE IntroInvalid(st)
    IN  Result(b.st, b.reply, <<b.st>>, <<b.reply>>, "intro", 200, b.res)

CORRUPTED_REPLY ==
    <<"Error: Invalid game state (missing outcomes for current question). Reply RESTART to begin anew.">>

\* CorruptedBranch that replies without saving the dead record
CorruptedBranch_NotSaved(st) ==
    Result(Dead(st), CORRUPTED_REPLY, <<>>, <<CORRUPTED_REPLY>>, "corrupted", 200, NoRes)

\* the current node is missing or has no outcome table
CorruptedBranch(st) ==
    LET reply == CORRUPTED_REPLY
        st2   == Dead(st)
    IN  Result(st2, reply, <<st2>>, <<reply>>, "corrupted", 200, NoRes)

\* the general question logic, ending in the handler's final send
QuestionBranch(st, text) ==
    LET c   == ChoiceKey(text)
        key == st.current_q
    IN  IF c # NONE
        THEN IF c \in DOMAIN GAME_DATA[key].outcomes
             THEN LET outcome == GAME_DATA[key].outcomes[c]
                      r == apply_outcome_and_get_message(outcome, st)
                      a == NextPrompt([st |-> r.st, reply |-> r.reply])
                  IN  Result(a.st, a.reply, <<a.st>>, <<a.reply>>, "question", 200,
                             Applied(outcome, st, r))
             ELSE LET reply == <<"Invalid choice. Please reply with 1, 2, or 3.">>
                               \o (IF HasOptions(key) THEN <<NL>> \o Options(key)
                                   ELSE <<NL, "Reply RESTART to begin anew.">>)
                  IN  Result(st, reply, <<>>, <<reply>>, "question", 200, NoRes)
        ELSE LET reply == <<"I don't understand that. Please choose an option (1, 2, 3) or reply RESTART.">>
                          \o (IF HasOptions(key) THEN <<NL>> \o Options(key) ELSE <<>>)
             IN  Result(st, reply, <<>>, <<reply>>, "question", 200, NoRes)

\* FallThrough that skips the send of an empty reply
FallThrough_NoSend(st) == Result(st, <<>>, <<>>, <<>>, "fallthrough", 200, NoRes)

\* no branch matched: the final send of the empty reply
FallThrough(st) == Result(st, <<>>, <<>>, <<<<>>>>, "fallthrough", 200, NoRes)

\* BadRequest that stores a record for the phone number it could not read
BadRequest_CreatesRecord ==
    Result(FreshState(<<>>), <<>>, <<FreshState(<<>>)>>, <<>>, "malformed", 400, NoRes)

\* the payload is rejected before the table is read
BadRequest == Result(FreshState(<<>>), <<>>, <<>>, <<>>, "malformed", 400, NoRes)

\* Dispatch with the game selection tested before the RESTART command
Dispatch_SelectionFirst(db_phone_number, st, text) ==
    IF st.game = NONE THEN SelectionBranch(st, text)
    ELSE IF text = T_RESTART THEN RestartBranch(db_phone_number)
    ELSE IF st.game = "hustle" /\ st.status = "alive"
         THEN IF st.current_q = "hustle_intro" THEN IntroBranch(st, text)
              ELSE IF ~HasOutcomes(st.current_q) THEN CorruptedBranch(st)
                   ELSE QuestionBranch(st, text)
         ELSE FallThrough(st)

\* Dispatch with the in-game logic entered whatever the status
Dispatch_NoAliveGuard(db_phone_number, st, text) ==
    IF text = T_RESTART THEN RestartBranch(db_phone_number)
    ELSE IF st.game = NONE THEN SelectionBranch(st, text)
    ELSE IF st.game = "hustle"
         THEN IF st.current_q = "hustle_intro" THEN IntroBranch(st, text)
              ELSE IF ~HasOutcomes(st.current_q) THEN CorruptedBranch(st)
                   ELSE QuestionBranch(st, text)
         ELSE FallThrough(st)

\* the branches after the record is loaded, in the handler's order
Dispatch(db_phone_number, st, text) ==
    IF text = T_RESTART THEN RestartBranch(db_phone_number)
    ELSE IF st.game = NONE THEN SelectionBranch(st, text)
    ELSE IF st.game = "hustle" /\ st.status = "alive"
         THEN IF st.current_q = "hustle_intro" THEN IntroBranch(st, text)
              ELSE IF ~HasOutcomes(st.current_q) THEN CorruptedBranch(st)
                   ELSE QuestionBranch(st, text)
         ELSE FallThrough(st)

inbound_sms_handler(event, table, readOk) ==
    LET p == Parse(event)
    IN  IF ~p.ok THEN [loaded |-> FreshState(<<>>), reads |-> 0] @@ BadRequest
        ELSE LET got == get_user_state(table, p.db, readOk)
                 st  == IF got.found THEN got.item ELSE FreshState(p.db)
             IN  [loaded |-> st, reads |-> 1] @@ Dispatch(p.db, st, p.text)

(***************************************************************************)
(* The state machine: one action per invocation of the handler             *)
(***************************************************************************)
PHONE == <<"+", "2", "5", "4", "7">>

Str(t) == [has |-> TRUE, v |-> t]
Absent == [has |-> FALSE, v |-> <<>>]

Ev(f, t) == [text |-> t.v, has_text |-> t.has, from |-> f.v, has_from |-> f.has]

\* the texts of well-formed messages, as the player typed them
Texts == {Str(<<"1">>), Str(<<"2">>), Str(<<" ", "3", "\n">>), Str(<<"4">>),
          Str(<<"r","e","s","t","a","r","t">>),
          Str(<<" ", "H","u","s","t","l","e">>), Str(<<"p","e","r","i","s","h">>)}

\* the webhook events: well-formed ones, and ones without a phone or a text
Events ==
    {Ev(Str(PHONE), t) : t \in Texts}
    \cup {Ev(Absent, Str(<<"1">>)), Ev(Str(<<>>), Str(<<"1">>)),
          Ev(Str(PHONE), Absent), Ev(Str(PHONE), Str(<<" ", " ">>))}

EmptyTable == [k \in {} |-> FreshState(<<>>)]

NoTurn ==
    [reply |-> <<>>, text |-> <<>>, saves |-> 0, branch |-> "none",
     statusCode |-> 0, db |-> <<>>, readOk |-> TRUE,
     loaded |-> FreshState(<<>>), reads |-> 0, kind |-> "none",
     wellformed |-> FALSE, before |-> EmptyTable, final |-> FreshState(<<>>),
     send_calls |-> 0, gateway |-> <<>>, writeOk |-> TRUE]

RECURSIVE SaveAll(_, _, _)
SaveAll(table, saves, ok) ==
    IF saves = <<>> THEN table
    ELSE SaveAll(save_user_state(table, Head(saves), ok), Tail(saves), ok)

RECURSIVE SendAll(_, _, _)
SendAll(sms_instance, recipient, sends) ==
    IF sends = <<>> THEN <<>>
    ELSE send_sms_reply(sms_instance, recipient, Head(sends))
         \o SendAll(sms_instance, recipient, Tail(sends))

\* the two invocations that can run at the same time
Procs == {1, 2}

\* an invocation slot with no event in hand
IdleCall ==
    [text |-> <<>>, db |-> <<>>, loaded |-> FreshState(<<>>), pc |-> "idle", readIdx |-> 0]

NoCalls ==
    [received |-> 0, completed |-> 0, inv |-> [p \in Procs |-> IdleCall], log |-> <<>>]

Init ==
    /\ sms_service \in BOOLEAN
    /\ store = EmptyTable
    /\ last = NoTurn
    /\ prev = NoTurn
    /\ res = NoRes
    /\ calls = NoCalls

Turn(event, readOk, writeOk) ==
    \E p \in {Parse(event)} : \E r \in {inbound_sms_handler(event, store, readOk)} :
        /\ store' = SaveAll(store, r.saves, writeOk)
        /\ last' = [reply |-> r.reply, text |-> p.text, saves |-> Len(r.saves), branch |-> r.branch,
                    statusCode |-> r.statusCode, db |-> p.db, readOk |-> readOk,
                    loaded |-> r.loaded, reads |-> r.reads,
                    kind |-> "turn", wellformed |-> p.ok,
                    before |-> store,
                    final |-> r.st,
                    send_calls |-> Len(r.sends), gateway |-> SendAll(sms_service, p.from, r.sends), writeOk |-> writeOk]
        /\ prev' = last
        /\ res' = r.res
        /\ UNCHANGED <<sms_service, calls>>

Next == \E event \in Events : Turn(event, TRUE, TRUE)

Spec == Init /\ [][Next]_vars

\* the events sent while the table is unreliable
FaultEvents ==
    {Ev(Str(PHONE), t) : t \in {Str(<<"1">>), Str(<<"2">>),
                                Str(<<"r","e","s","t","a","r","t">>)}}
    \cup {Ev(Str(PHONE), Absent)}

\* the same turns with a table whose get_item or put_item may raise
NextFaults ==
    \E event \in FaultEvents, readOk \in BOOLEAN, writeOk \in BOOLEAN :
        Turn(event, readOk, writeOk)

SpecFaults == Init /\ [][NextFaults]_vars

\* the messages of a player who keeps sending valid choices
ChoiceEvents == {Ev(Str(PHONE), Str(<<c>>)) : c \in {"1", "2", "3"}}

NextPlay == \E event \in ChoiceEvents : Turn(event, TRUE, TRUE)

SpecPlay == Init /\ [][NextPlay]_vars

(***************************************************************************)
(* Invocations that overlap: the handler takes no lock, so between its     *)
(* get_item and its put_item another invocation for the same phone number  *)
(* can read and write the table.  An invocation is three steps: the parse, *)
(* the read, and the rest of the handler with its one write.               *)
(***************************************************************************)
\* the number of events delivered
MaxCalls == 4

ConcurrentEvents ==
    {Ev(Str(PHONE), t) : t \in {Str(<<"1">>), Str(<<"2">>),
                                Str(<<"r","e","s","t","a","r","t">>)}}
    \cup {Ev(Str(PHONE), Absent)}

\* the last two entries of the log of completed invocations
Push(log, e) == IF Len(log) = 2 THEN <<log[2], e>> ELSE Append(log, e)

\* current_user_state that is read again when the response is computed
current_user_state_ReadAtWrite(p) ==
    LET got == get_user_state(store, calls.inv[p].db, TRUE)
    IN  IF got.found THEN got.item ELSE FreshState(calls.inv[p].db)

\* the handler's local variable: the record as it was read
current_user_state(p) == calls.inv[p].loaded

\* parsing and validation; a malformed event is answered 400 at once
Receive(p, event) ==
    /\ calls.inv[p].pc = "idle"
    /\ calls.received < MaxCalls
    /\ \E q \in {Parse(event)} :
         calls' = IF q.ok
                  THEN [calls EXCEPT !.received = @ + 1,
                                     !.inv[p] = [text |-> q.text, db |-> q.db, loaded |-> FreshState(<<>>),
                                                 pc |-> "parsed", readIdx |-> 0]]
                  ELSE [calls EXCEPT !.received = @ + 1]
    /\ UNCHANGED <<sms_service, store, last, prev, res>>

\* get_user_state, and the new player's record when there is none
ReadState(p) ==
    /\ calls.inv[p].pc = "parsed"
    /\ \E got \in {get_user_state(store, calls.inv[p].db, TRUE)} :
         calls' = [calls EXCEPT !.inv[p].pc = "loaded",
                                !.inv[p].loaded = IF got.found THEN got.item
                                                  ELSE FreshState(calls.inv[p].db),
                                !.inv[p].readIdx = calls.completed]
    /\ UNCHANGED <<sms_service, store, last, prev, res>>

\* the branches of the handler on the record read earlier, with their write
Respond(p) ==
    /\ calls.inv[p].pc = "loaded"
    /\ \E r \in {Dispatch(calls.inv[p].db, current_user_state(p), calls.inv[p].text)} :
         /\ store' = SaveAll(store, r.saves, TRUE)
         /\ calls' = [calls EXCEPT
                        !.completed = @ + 1,
                        !.inv[p] = IdleCall,
                        !.log = Push(@, [text |-> calls.inv[p].text, saves |-> Len(r.saves),
                                         loaded |-> calls.inv[p].loaded,
                                         before |-> store,
                                         final |-> r.st,
                                         readIdx |-> calls.inv[p].readIdx, proc |-> p,
                                         idx |-> calls.completed + 1])]
    /\ UNCHANGED <<sms_service, last, prev, res>>

NextConcurrent ==
    \E p \in Procs :
        \/ \E event \in ConcurrentEvents : Receive(p, event)
        \/ ReadState(p)
        \/ Respond(p)

SpecConcurrent == Init /\ [][NextConcurrent]_vars

(***************************************************************************)
(* apply_outcome_and_get_message on its own, over the outcomes the data    *)
(* model allows and the records of living players                          *)
(***************************************************************************)
Deltas == {-2000, -4, 0, 3, 8000}

EffectSpace ==
    {Effect(b.has_net_worth, b.die, b.net_worth, b.has_percentage, b.pct_num, b.pct_den, ev) :
       b \in {Add(d) : d \in Deltas} \cup {Die, Pct(-1, 2), Effect(FALSE, FALSE, 0, FALSE, 0, 1, NONE)},
       ev \in {NONE, "unknown_event"} \cup DOMAIN RANDOM_EVENTS}

OutcomeSpace ==
    {Outcome("outcome message", eff, nxt) :
       eff \in EffectSpace, nxt \in {NONE, "hustle_q3", "check_win"}}

NetWorths == {0, 1, 3, 2500, 9999}

StateSpace ==
    {[FreshState(RemovePlus(PHONE)) EXCEPT !.game = "hustle", !.current_q = "hustle_q2",
                                           !.net_worth = n] : n \in NetWorths}

Resolve ==
    \E outcome \in OutcomeSpace, st \in StateSpace :
      \E r \in {apply_outcome_and_get_message(outcome, st)} :
        /\ res' = Applied(outcome, st, r)
        /\ UNCHANGED <<sms_service, store, last, prev, calls>>

SpecResolver == Init /\ [][Resolve]_vars

(***************************************************************************)
(* Properties                                                              *)
(***************************************************************************)
DB == RemovePlus(PHONE)

\* the player has a record in the table
HasRecord == DB \in DOMAIN store

\* the player's persisted record, as get_user_state loads it
Persisted == get_user_state(store, DB, TRUE).item

\* the persisted record the last turn started from
HadRecord == DB \in DOMAIN last.before
PersistedBefore == get_user_state(last.before, DB, TRUE).item

\* the last turn re-prompted at a node: the choice was unrecognized or invalid
ValidationFailure ==
    /\ last.kind = "turn"
    /\ last.branch \in {"intro", "question"}
    /\ ~res.applied
    /\ last.final.status = "alive"

\* C1: in every persisted record, status = dead implies game = none and
\* current_q = none.
C1_DeadHasNoGame ==
    HasRecord /\ Persisted.status = "dead"
        => Persisted.game = NONE /\ Persisted.current_q = NONE

\* C2: a turn that mutates the player record writes it exactly once, and a turn
\* whose reply is a validation failure, at the intro node or at a question node,
\* writes nothing.
C2_WriteIffMutation ==
    last.kind = "turn" =>
        /\ (last.final # last.loaded => last.saves = 1)
        /\ (ValidationFailure => last.saves = 0)

\* the next_state values an outcome brings: its own and its random event's
NextStatesOf(outcome) ==
    {outcome.next_state}
    \cup {RANDOM_EVENTS[e].next_state :
            e \in {outcome.effect.random_event} \cap DOMAIN RANDOM_EVENTS}

IsNodeOrNone(n) == n = NONE \/ n \in DOMAIN GAME_DATA

\* C3: every next_state of the script (the intro node's, each applied outcome's,
\* its random event's) is none or the key of a node of the script, and no
\* persisted current_q is a key that has no node.
C3_NextStatesExist ==
    /\ IsNodeOrNone(GAME_DATA["hustle_intro"].next_state)
    /\ res.applied => \A n \in NextStatesOf(res.outcome) : IsNodeOrNone(n)
    /\ HasRecord => IsNodeOrNone(Persisted.current_q)

\* the outcome applied last, or the random event it triggered, eliminates the player
Eliminates(outcome) ==
    \/ outcome.effect.has_net_worth /\ outcome.effect.die
    \/ /\ outcome.effect.random_event \in DOMAIN RANDOM_EVENTS
       /\ RANDOM_EVENTS[outcome.effect.random_event].effect.has_net_worth
       /\ RANDOM_EVENTS[outcome.effect.random_event].effect.die

\* C4: when the outcome's effect or its event's effect is the elimination marker,
\* the resolver's reply is exactly the default-death message.
C4_DeathReplyExact ==
    res.applied /\ Eliminates(res.outcome) => res.reply = <<DEFAULT_DEATH>>

Range(seq) == {seq[i] : i \in 1..Len(seq)}

IsOver(st) == st.status = "dead" /\ st.game = NONE /\ st.current_q = NONE

\* C5: after an application of the resolver a living player's net worth is not
\* negative, and no persisted record is alive with a negative net worth.
C5_AliveNonNegative ==
    /\ res.applied /\ res.out.status = "alive" => res.out.net_worth >= 0
    /\ HasRecord /\ Persisted.status = "alive" => Persisted.net_worth >= 0

\* C5 witness: an outcome took a living player's net worth below zero and the
\* record persisted after it is alive with net worth 0.
C5_Witness ==
    /\ res.applied /\ res.outcome.effect.has_net_worth /\ ~res.outcome.effect.die
    /\ res.input.net_worth + res.outcome.effect.net_worth < 0
    /\ HasRecord /\ Persisted = res.out
    /\ Persisted.status = "alive" /\ Persisted.net_worth = 0

\* C6: when the resolver finds the player alive with net_worth >= 10000 after
\* all effects and the clamp, the record ends dead with no game and no current
\* node, it is persisted so, and the turn's reply contains the win message.
C6_WinEndsGame ==
    res.applied /\ res.mid.status = "alive" /\ res.mid.net_worth >= HUSTLE_GOAL
        => /\ IsOver(res.out)
           /\ last.final = res.out
           /\ HasRecord /\ Persisted = res.out
           /\ WIN_HUSTLE \in Range(last.reply)

\* C6 witness: a turn whose outcome left the player alive at the goal or above.
C6_Witness ==
    /\ last.kind = "turn" /\ res.applied
    /\ res.mid.status = "alive" /\ res.mid.net_worth >= HUSTLE_GOAL
    /\ IsOver(Persisted)

\* C7: at hustle_q4 with net_worth 2500 the message "1" gives net_worth 10500
\* and a reply with the win message; after that win every message other than the
\* reset command leaves the persisted record unchanged.
C7_WinThenQuiescent ==
    /\ last.kind = "turn" /\ last.wellformed /\ last.text = T_1
       /\ last.loaded.game = "hustle" /\ last.loaded.status = "alive"
       /\ last.loaded.current_q = "hustle_q4" /\ last.loaded.net_worth = 2500
         => last.final.net_worth = 10500 /\ WIN_HUSTLE \in Range(last.reply)
    /\ last.kind = "turn" /\ HadRecord /\ PersistedBefore.status = "dead"
       /\ PersistedBefore.net_worth = 10500 /\ last.text # T_RESTART
         => store = last.before

\* C8: the reset command replaces the record by the fresh one, persists it and
\* replies with the top-level menu; no other branch runs.
C8_ResetFresh ==
    last.kind = "turn" /\ last.wellformed /\ last.text = T_RESTART
        => /\ HasRecord /\ Persisted = FreshState(DB)
           /\ last.saves = 1
           /\ last.reply = <<"Welcome back! ">> \o MENU
           /\ last.branch = "restart" /\ ~res.applied /\ last.send_calls = 1

\* C8 witness: the reset command sent by a dead player with a net worth.
C8_Witness ==
    /\ last.kind = "turn" /\ last.text = T_RESTART
    /\ HadRecord /\ PersistedBefore.status = "dead" /\ PersistedBefore.net_worth > 0
    /\ Persisted = FreshState(DB)

\* turn t re-prompted at a node for a text that is no choice label
UnrecognizedAt(t) ==
    t.kind = "turn" /\ t.branch \in {"intro", "question"} /\ ChoiceKey(t.text) = NONE

\* C9: an unrecognized choice at a node, sent again, leaves the persisted record
\* as it was before the first message and gets the same reply both times.
C9_UnrecognizedTwice ==
    UnrecognizedAt(prev) /\ last.kind = "turn" /\ last.wellformed /\ last.text = prev.text
        => /\ last.before = prev.before
           /\ store = prev.before
           /\ last.reply = prev.reply

\* C9 witness: the same unrecognized text sent twice at the intro node.
C9_Witness ==
    /\ UnrecognizedAt(prev) /\ UnrecognizedAt(last) /\ last.text = prev.text
    /\ prev.loaded.current_q = "hustle_intro" /\ last.loaded.current_q = "hustle_intro"

\* C10: a turn with well-formed input calls send_sms_reply exactly once (one
\* gateway send when the SDK is initialised), on every branch; a turn with
\* malformed input makes no send.
C10_OneSendPerTurn ==
    last.kind = "turn" =>
        IF last.wellformed
        THEN /\ last.branch \in {"restart", "selection", "intro", "corrupted",
                                 "question", "fallthrough"}
             /\ last.send_calls = 1
             /\ sms_service => Len(last.gateway) = 1 /\ last.gateway[1].text = last.reply
        ELSE last.branch = "malformed" /\ last.send_calls = 0 /\ last.gateway = <<>>

\* C10 witness: a dead player's message fell through to the final send.
C10_Witness ==
    /\ last.kind = "turn" /\ last.branch = "fallthrough"
    /\ sms_service /\ Len(last.gateway) = 1

\* the last turn resolved choice c at node q
ChoseAt(q, c) ==
    /\ last.kind = "turn" /\ last.branch = "question" /\ res.applied
    /\ last.loaded.current_q = q /\ last.text = c

Max(a, b) == IF a >= b THEN a ELSE b

\* C11: a player at hustle_q2 who sends "1" ends with net_worth =
\* max(0, baseline - 4000) (the outcome's -2000, the ghosted event's -2000, then
\* the clamp) and with current_q = hustle_q3, the event's next_state, in place of
\* the outcome's none; the record is persisted so.
C11_GhostedAtQ2 ==
    ChoseAt("hustle_q2", T_1)
        => /\ res.outcome.next_state = NONE
           /\ res.outcome.effect.net_worth = -2000
           /\ RANDOM_EVENTS[res.outcome.effect.random_event].effect.net_worth = -2000
           /\ last.final.net_worth = Max(0, last.loaded.net_worth - 4000)
           /\ last.final.current_q = "hustle_q3"
           /\ last.final.status = "alive"
           /\ Persisted = last.final

\* C11 witness: the player lent the money with a baseline of 5000 and is at
\* hustle_q3 with 1000.
C11_Witness ==
    /\ ChoseAt("hustle_q2", T_1) /\ last.loaded.net_worth = 5000
    /\ Persisted.net_worth = 1000 /\ Persisted.current_q = "hustle_q3"

\* turn t is the message "1" of a player whose record is the fresh one
FreshSelects(t) ==
    t.kind = "turn" /\ t.wellformed /\ t.text = T_1 /\ t.loaded = FreshState(DB)

\* a node's message and its options, as the replies print them
PromptText(key) == <<GAME_DATA[key].message, NL>> \o Options(key)

\* C12: a fresh user who sends "1" gets the hustle intro message and its 3
\* options and a persisted record with game = hustle, current_q = hustle_intro;
\* a following "1" is resolved against hustle_q1's outcome "1": net_worth 5000,
\* current_q = hustle_q2, and the reply is the +KES 5000 message followed by
\* hustle_q2's prompt and options.
C12_FreshUserScenario ==
    /\ FreshSelects(last)
         => /\ last.reply = PromptText("hustle_intro")
            /\ Len(GAME_DATA["hustle_intro"].options) = 3
            /\ last.final = [FreshState(DB) EXCEPT !.game = "hustle", !.current_q = "hustle_intro"]
            /\ HasRecord /\ Persisted = last.final
    /\ FreshSelects(prev) /\ last.kind = "turn" /\ last.wellformed /\ last.text = T_1
         => /\ res.applied /\ res.outcome = GAME_DATA["hustle_q1"].outcomes["1"]
            /\ last.final = [prev.final EXCEPT !.net_worth = 5000, !.current_q = "hustle_q2"]
            /\ Persisted = last.final
            /\ res.outcome.effect.net_worth = 5000
            /\ last.reply = <<res.outcome.message, NL, NL,
                              "Current Net Worth: KES ", "5000", NL>>
                            \o PromptText("hustle_q2")

\* C12 witness: a user without a record sent "1" and then "1", and is at
\* hustle_q2 with 5000.
C12_Witness ==
    /\ FreshSelects(prev) /\ prev.before = EmptyTable
    /\ last.kind = "turn" /\ last.text = T_1 /\ last.branch = "intro"
    /\ Persisted.net_worth = 5000 /\ Persisted.current_q = "hustle_q2"

\* the texts that select the implemented game
SelectsHustle(text) == text \in {T_1, T_CHOOSE_YOUR_HUSTLE, T_HUSTLE}

\* C13: while the record has game = none, a message (other than the reset
\* command) takes the game-selection branch; selecting the unimplemented game or
\* sending unrecognized input neither mutates nor persists the record, and only
\* selecting the implemented game sets game = hustle and current_q =
\* hustle_intro and persists, with one write.
C13_SelectionFrame ==
    last.kind = "turn" /\ last.wellformed /\ last.loaded.game = NONE /\ last.text # T_RESTART
        => /\ last.branch = "selection"
           /\ IF SelectsHustle(last.text)
              THEN /\ last.final = [last.loaded EXCEPT !.game = "hustle",
                                                       !.current_q = "hustle_intro"]
                   /\ last.saves = 1
                   /\ HasRecord /\ Persisted = last.final
              ELSE /\ last.final = last.loaded
                   /\ last.saves = 0
                   /\ store = last.before

\* C13 witness: a user without a record asked for the unimplemented game, then
\* sent an unrecognized text, and still has no record.
C13_Witness ==
    /\ prev.kind = "turn" /\ prev.branch = "selection" /\ prev.text = T_PERISH
    /\ last.kind = "turn" /\ last.branch = "selection" /\ last.text = <<"4">>
    /\ ~HasRecord

\* the record is of a living player in the game whose current node, not the
\* intro node, is missing from the script or has no outcome table
CorruptedState(st) ==
    /\ st.game = "hustle" /\ st.status = "alive"
    /\ st.current_q # "hustle_intro" /\ ~HasOutcomes(st.current_q)

\* C14: a turn (other than the reset command) of a living in-progress player
\* whose current node is missing or has no outcome table sets status = dead,
\* game = none, current_q = none, hands that record to the store and replies
\* with the corrupted-state message; when the write succeeded the record is
\* persisted so and the player's next turn does not take the corrupted-state
\* branch.
C14_CorruptedStateFatal ==
    /\ last.kind = "turn" /\ last.wellformed /\ last.text # T_RESTART
       /\ CorruptedState(last.loaded)
         => /\ last.branch = "corrupted"
            /\ last.final = Dead(last.loaded)
            /\ last.reply = CORRUPTED_REPLY
            /\ last.saves = 1 /\ last.send_calls = 1
            /\ last.writeOk => HasRecord /\ Persisted = last.final
    /\ prev.kind = "turn" /\ prev.branch = "corrupted" /\ prev.writeOk
       /\ last.kind = "turn"
         => last.branch # "corrupted"

\* C14 witness: a player stored at check_win took the corrupted-state branch,
\* the write succeeded, and the next message got the game selection.
C14_Witness ==
    /\ prev.kind = "turn" /\ prev.branch = "corrupted" /\ prev.writeOk
    /\ prev.loaded.current_q = "check_win"
    /\ last.kind = "turn" /\ last.readOk /\ last.branch = "selection"
    /\ last.loaded = Dead(prev.loaded)

\* C15: a payload with a missing or empty phone number or text is answered 400
\* before the table is read: no read, no write, no record created, no send, and
\* the table is as it was.
C15_MalformedRejected ==
    last.kind = "turn" /\ ~last.wellformed
        => /\ last.statusCode = 400
           /\ last.reads = 0
           /\ last.saves = 0
           /\ store = last.before /\ DOMAIN store \subseteq {DB}
           /\ last.send_calls = 0 /\ last.gateway = <<>>

\* C15 witness: a payload without a phone number and then one with a blank text
\* arrived while the player was in the game, and the record is as before.
C15_Witness ==
    /\ prev.kind = "turn" /\ ~prev.wellformed /\ prev.db = <<>> /\ prev.text = T_1
    /\ last.kind = "turn" /\ ~last.wellformed /\ last.db = DB /\ last.text = <<>>
    /\ HasRecord /\ Persisted.game = "hustle" /\ store = prev.before

\* turn t handed a record to save_user_state and the write failed
FailedWrite(t) == t.kind = "turn" /\ t.wellformed /\ t.saves >= 1 /\ ~t.writeOk

\* the record a turn loads from a table: the stored one, or the new player's
RecordOf(table) ==
    IF DB \in DOMAIN table THEN get_user_state(table, DB, TRUE).item ELSE FreshState(DB)

\* C16: when the store write of a turn fails, the table stays as it was before
\* the turn, the turn still makes its send and returns 200, and the player's
\* next message (when its read succeeds) is resolved against the record
\* persisted before the failed turn.
C16_FailedWriteKeepsOld ==
    /\ FailedWrite(last)
         => /\ store = last.before
            /\ last.statusCode = 200
            /\ last.send_calls = 1
            /\ sms_service => Len(last.gateway) = 1 /\ last.gateway[1].text = last.reply
    /\ FailedWrite(prev) /\ last.kind = "turn" /\ last.wellformed /\ last.readOk
         => /\ last.loaded = RecordOf(prev.before)
            /\ last.final = Dispatch(DB, RecordOf(prev.before), last.text).st
            /\ last.reply = Dispatch(DB, RecordOf(prev.before), last.text).reply

\* C16 witness: the first choice at the intro took the player to hustle_q2 but
\* the write failed; the next message was read at the intro node again.
C16_Witness ==
    /\ FailedWrite(prev) /\ prev.branch = "intro" /\ prev.final.current_q = "hustle_q2"
    /\ prev.statusCode = 200 /\ prev.send_calls = 1
    /\ last.kind = "turn" /\ last.readOk /\ last.branch = "intro"
    /\ last.loaded.current_q = "hustle_intro" /\ last.loaded = RecordOf(prev.before)

\* floor(n / den) for den > 0: rounding toward negative infinity
Floor(n, den) == n \div den

\* floor(net_worth * percentage)
FloorDelta(net_worth, eff) == Floor(net_worth * eff.pct_num, eff.pct_den)

\* the effect has a percentage that the resolver applies
IsPercentage(eff) == eff.has_percentage /\ ~eff.has_net_worth

\* net worth after the outcome's own effect, for an outcome that does not eliminate
AfterOwnEffect(outcome, nw) ==
    IF outcome.effect.has_net_worth THEN nw + outcome.effect.net_worth
    ELSE IF outcome.effect.has_percentage THEN nw + PercentDelta(nw, outcome.effect)
         ELSE nw

\* C17: the resolver's percentage effect adds exactly floor(net_worth *
\* percentage), rounding toward negative infinity, for every integer net worth
\* (positive, zero, odd, transiently negative), both as an outcome's own effect
\* and as a random event's effect.
C17_PercentageFloors ==
    res.applied =>
        /\ IsPercentage(res.outcome.effect)
           /\ res.outcome.effect.random_event \notin DOMAIN RANDOM_EVENTS
             => res.mid.net_worth
                  = Max(0, res.input.net_worth
                           + FloorDelta(res.input.net_worth, res.outcome.effect))
        /\ res.outcome.effect.random_event \in DOMAIN RANDOM_EVENTS
           /\ IsPercentage(RANDOM_EVENTS[res.outcome.effect.random_event].effect)
           /\ ~(res.outcome.effect.has_net_worth /\ res.outcome.effect.die)
             => LET a == AfterOwnEffect(res.outcome, res.input.net_worth)
                IN  res.mid.net_worth
                      = Max(0, a + FloorDelta(a, RANDOM_EVENTS[res.outcome.effect.random_event].effect))

\* the outcome adds to the net worth and triggers a random event of RANDOM_EVENTS
AddsThenEvent(outcome) ==
    /\ outcome.effect.has_net_worth /\ ~outcome.effect.die
    /\ outcome.effect.random_event \in DOMAIN RANDOM_EVENTS

\* net worth after a random event's effect, for an event that does not eliminate
AfterEventEffect(ev, nw) ==
    IF ev.effect.has_net_worth THEN nw + ev.effect.net_worth
    ELSE IF ev.effect.has_percentage THEN nw + PercentDelta(nw, ev.effect)
         ELSE nw

\* the node a living player moves to: the pending next_state, or the intro
PendingNode(nxt) == IF nxt # NONE /\ nxt # "" THEN nxt ELSE "hustle_intro"

\* C18: the resolver applies the outcome's effect, then the random event's
\* effect, then the clamp, then the win check, then the next-state assignment:
\* the win check reads the net worth after the event, so a player at or above
\* 10000 after the outcome's own effect but below it after the event's effect
\* does not win and stays alive with current_q set to the pending next node; an
\* event that eliminates ends the game without a win.
C18_WinCheckAfterEvent ==
    res.applied /\ AddsThenEvent(res.outcome) =>
        LET ev == RANDOM_EVENTS[res.outcome.effect.random_event]
            a  == AfterOwnEffect(res.outcome, res.input.net_worth)
            b  == Max(0, AfterEventEffect(ev, a))
        IN  IF ev.effect.has_net_worth /\ ev.effect.die
            THEN /\ res.out.status = "dead"
                 /\ WIN_HUSTLE \notin Range(res.reply)
            ELSE /\ res.mid.net_worth = b
                 /\ b >= HUSTLE_GOAL
                      => IsOver(res.out) /\ WIN_HUSTLE \in Range(res.reply)
                 /\ b < HUSTLE_GOAL
                      => /\ res.out.status = "alive" /\ res.out.game = res.input.game
                         /\ res.out.net_worth = b
                         /\ res.out.current_q
                              = PendingNode(EventNextState(ev, res.outcome.next_state))
                         /\ WIN_HUSTLE \notin Range(res.reply)

\* C18 witness: 2500 + 8000 passes the goal, the ghosted event takes 2000 back,
\* and the player is alive at hustle_q3 with 8500.
C18_Witness ==
    /\ res.applied /\ AddsThenEvent(res.outcome)
    /\ res.input.net_worth + res.outcome.effect.net_worth >= HUSTLE_GOAL
    /\ res.outcome.effect.random_event = "ghosted"
    /\ res.out.status = "alive" /\ res.out.net_worth = 8500
    /\ res.out.current_q = "hustle_q3"

\* C20: with store reads and writes succeeding, no sequence of messages from a
\* fresh record gets the corrupted-state reply: every persisted record with
\* game = hustle and status = alive has a current_q that is the intro node or a
\* node with an outcome table.
C20_NoCorruptedReply ==
    /\ HasRecord /\ Persisted.game = "hustle" /\ Persisted.status = "alive"
         => Persisted.current_q = "hustle_intro" \/ HasOutcomes(Persisted.current_q)
    /\ last.branch # "corrupted" /\ last.reply # CORRUPTED_REPLY

\* the two invocations completed last read the table before either of them
\* wrote, with no other write in between
Overlapped ==
    /\ Len(calls.log) = 2
    /\ calls.log[1].proc # calls.log[2].proc
    /\ calls.log[1].readIdx = calls.log[2].readIdx
    /\ calls.log[1].idx = calls.log[1].readIdx + 1
    /\ calls.log[2].idx = calls.log[1].idx + 1

\* the table after the messages t1 and then t2 handled one after the other
SerialTable(table, t1, t2) ==
    LET r1 == Dispatch(DB, RecordOf(table), t1)
        s1 == SaveAll(table, r1.saves, TRUE)
        r2 == Dispatch(DB, RecordOf(s1), t2)
    IN  SaveAll(s1, r2.saves, TRUE)

\* C19: when two invocations for the same phone number both read the record
\* before either writes, both work on the old record, and the persisted record
\* is the last writer's result computed from the old record: the first writer's
\* update is overwritten.
C19_LastWriterFromOldRecord ==
    Overlapped =>
        LET old == calls.log[1].before
            e1  == calls.log[1]
            e2  == calls.log[2]
        IN  /\ e1.loaded = RecordOf(old) /\ e2.loaded = RecordOf(old)
            /\ e2.before = SaveAll(old, Dispatch(DB, RecordOf(old), e1.text).saves, TRUE)
            /\ IF e2.saves = 1
               THEN /\ HasRecord
                    /\ Persisted = Dispatch(DB, RecordOf(old), e2.text).st
               ELSE store = e2.before

\* C19 witness: two overlapped invocations both wrote, and the table is the
\* result of neither serial order of the two messages.
C19_Witness ==
    /\ Overlapped
    /\ calls.log[1].saves = 1 /\ calls.log[2].saves = 1
    /\ Persisted = Dispatch(DB, RecordOf(calls.log[1].before), calls.log[2].text).st
    /\ store # SerialTable(calls.log[1].before, calls.log[1].text, calls.log[2].text)
    /\ store # SerialTable(calls.log[1].before, calls.log[2].text, calls.log[1].text)

\* C21: a failed store read never makes a turn overwrite an existing player's
\* persisted progress: when the read fails for a player with a game in progress
\* and the message is not the reset command, the table after the turn equals
\* the table before it.
C21_FailedReadKeepsProgress ==
    last.kind = "turn" /\ last.wellformed /\ last.reads = 1 /\ ~last.readOk
    /\ HadRecord /\ PersistedBefore.game = "hustle" /\ last.text # T_RESTART
        => store = last.before

\* the last turn was a valid choice of a living player with the game in progress
ChoiceInProgress ==
    /\ last.kind = "turn" /\ last.wellformed /\ ChoiceKey(last.text) # NONE
    /\ HadRecord /\ PersistedBefore.game = "hustle" /\ PersistedBefore.status = "alive"

\* C22: an in-progress game always ends: from any alive record with game =
\* hustle, a player who keeps sending valid choices (1, 2 or 3) reaches
\* status = dead after finitely many turns, whatever the choices.  The handler
\* is a function of the record and the text, so the game ends whatever the
\* choices only if no valid choice leaves the persisted record as it was: the
\* same choice sent again would leave it so for ever.
C22_ChoiceAdvancesGame == ChoiceInProgress => store # last.before

\* C23: with store reads succeeding, a turn that starts from a persisted record
\* with status = dead and is not the reset command leaves the persisted status
\* dead and resolves no outcome, a game selection included: the status becomes
\* alive again only through the reset command.
C23_DeadUntilReset ==
    last.kind = "turn" /\ last.readOk /\ HadRecord /\ PersistedBefore.status = "dead"
    /\ ~(last.wellformed /\ last.text = T_RESTART)
        => /\ HasRecord /\ Persisted.status = "dead"
           /\ last.final.status = "dead" \/ ~last.wellformed
           /\ ~res.applied

\* C23 witness: a dead player selected the game and then sent a choice; the
\* choice fell through, no outcome was resolved and the record is still dead.
C23_Witness ==
    /\ prev.kind = "turn" /\ prev.branch = "selection" /\ SelectsHustle(prev.text)
    /\ prev.loaded.status = "dead" /\ prev.saves = 1
    /\ last.kind = "turn" /\ last.text = T_1 /\ last.branch = "fallthrough"
    /\ last.loaded.game = "hustle" /\ last.loaded.current_q = "hustle_intro"
    /\ Persisted.status = "dead" /\ ~res.applied

=============================================================================
